---- MODULE Spec2Model ----
(***************************************************************************)
(* Model of Jobs_Crawler.py: scrape_jobs() fetches one careers page        *)
(* through the crawl4ai collaborator, parses the extracted JSON, rewrites  *)
(* relative urls, prints the array and writes extracted_jobs.json.         *)
(*                                                                         *)
(* Strings that the code inspects (the url values) are sequences of        *)
(* one-character strings; JSON values are tagged records.                  *)
(***************************************************************************)
EXTENDS Integers, Sequences, FiniteSets, TLC

\* Largest number of records the collaborator returns in one extraction.
MaxJobs == 2

-----------------------------------------------------------------------------
(* JSON values                                                              *)

\* A JSON value held under a key of a job dictionary; "missing" is the
\* absence of the key (what dict.get answers None for).
Str(s) == [t |-> "str", s |-> s, n |-> 0]
Num(n) == [t |-> "num", s |-> <<>>, n |-> n]
Null == [t |-> "null", s |-> <<>>, n |-> 0]
Missing == [t |-> "missing", s |-> <<>>, n |-> 0]

\* "https://www.google.com", the literal of line 108.
BaseUrlSchemeRelative ==
    <<"/", "/", "w", "w", "w", ".", "g", "o", "o", "g", "l", "e", ".", "c", "o", "m">>

BaseUrl ==
    <<"h", "t", "t", "p", "s", ":", "/", "/",
      "w", "w", "w", ".", "g", "o", "o", "g", "l", "e", ".", "c", "o", "m">>

\* url values the extraction can hand back: href attributes that are
\* relative ("/", "/j", "//j"), not relative ("j/", "h"), empty, null, absent,
\* and values that are not strings (0 is falsy, 5 is truthy).
UrlStrings == { <<>>, <<"/">>, <<"/", "j">>, <<"/", "/", "j">>, <<"j", "/">>, <<"h">> }

UrlVals == { Str(s) : s \in UrlStrings } \cup { Null, Missing, Num(0), Num(5) }

TitleVals == { Str(<<"A">>), Null }

LocationVals == { Str(<<"K">>), Missing }

\* One element of the parsed array: a dictionary, or something that is not
\* a dictionary (a number, say), which has no .get.
Job(ti, lo, u) == [dict |-> TRUE, title |-> ti, location |-> lo, url |-> u]
NotADict == [dict |-> FALSE, title |-> Missing, location |-> Missing, url |-> Missing]

Items ==
    { Job(ti, lo, u) : ti \in TitleVals, lo \in LocationVals, u \in UrlVals }
        \cup { NotADict }

\* Records that differ only in what the control flow reads: the url, and
\* whether the element is a dictionary.
UrlItems ==
    { Job(Str(<<"A">>), Str(<<"K">>), u) : u \in UrlVals } \cup { NotADict }

\* The records of a smaller portal, used where the script is run repeatedly.
CatalogueItems ==
    { Job(Str(<<"A">>), Str(<<"K">>), u) :
        u \in { Str(<<"/", "j">>), Str(<<"h">>), Null, Num(5) } }

ListsOf(S) == UNION { [1..n -> S] : n \in 0..MaxJobs }

\* The value json.loads returns: a list, or a value a for loop cannot iterate.
List(items) == [t |-> "list", items |-> items]
Scalar == [t |-> "num", items |-> <<>>]

-----------------------------------------------------------------------------
(* result.extracted_content and the result object                           *)

\* extracted_content is None or a string; a string is JSON text (json = TRUE,
\* value the value it denotes) or not.  text identifies the raw characters.
NoneContent == [kind |-> "None", text |-> "", json |-> FALSE, value |-> Scalar]
EmptyContent == [kind |-> "str", text |-> "", json |-> FALSE, value |-> Scalar]
BadContent(tx) == [kind |-> "str", text |-> tx, json |-> FALSE, value |-> Scalar]
JsonContent(v) == [kind |-> "str", text |-> "json", json |-> TRUE, value |-> v]

BadTexts == { "<html>", "[{" }

FalsyContents == { NoneContent, EmptyContent }

TruthyContents(S) ==
    { BadContent(tx) : tx \in BadTexts }
        \cup { JsonContent(List(l)) : l \in ListsOf(S) }
        \cup { JsonContent(Scalar) }

\* The attributes the warning branch reads: present or not on the result.
Attrs == [status : {"absent", "200"}, model_output : {"absent", "empty", "text"}]

NoAttrs == [status |-> "absent", model_output |-> "absent"]

NoResult == [none |-> TRUE, extracted_content |-> NoneContent, attrs |-> NoAttrs]

\* What crawler.arun can return.  The attributes are read only when the
\* content is falsy, so they vary only there.
Results(S) ==
    { NoResult }
        \cup { [none |-> FALSE, extracted_content |-> c, attrs |-> a] :
                 c \in FalsyContents, a \in Attrs }
        \cup { [none |-> FALSE, extracted_content |-> c, attrs |-> NoAttrs] :
                 c \in TruthyContents(S) }

-----------------------------------------------------------------------------
(* The pure steps of the code                                               *)

\* Python truthiness of the value job.get("url") answers (line 106): None
\* (a missing key or null), "" and 0 are falsy.
Truthy(v) ==
    CASE v.t = "str" -> Len(v.s) > 0
      [] v.t = "num" -> v.n # 0
      [] OTHER -> FALSE

\* A test for "/" anywhere in the string, not at its start.
ContainsSlash(s) == \E k \in 1..Len(s) : s[k] = "/"

\* str.startswith("/") (line 106).
StartsWithSlash(s) == Len(s) > 0 /\ s[1] = "/"

\* The concatenation with its operands swapped.
AbsoluteSwapped(s) == s \o BaseUrl

\* "https://www.google.com" + job["url"] (line 108).
Absolute(s) == BaseUrl \o s

\* The assignment made under the wrong key.
SetUrlWrongKey(job, v) == [job EXCEPT !.title = v]

\* job["url"] = v (line 108).
SetUrl(job, v) == [job EXCEPT !.url = v]

\* One pass of the loop body on one element (lines 106-108).  Answers the
\* exception the pass raises ("none" when it raises nothing) and the element
\* as the pass leaves it.
LoopBody(job) ==
    IF ~job.dict
      THEN [raises |-> "AttributeError", job |-> job]
    ELSE IF ~Truthy(job.url)
      THEN [raises |-> "none", job |-> job]
    ELSE IF job.url.t # "str"
      THEN [raises |-> "AttributeError", job |-> job]
    ELSE IF StartsWithSlash(job.url.s)
      THEN [raises |-> "none", job |-> SetUrl(job, Str(Absolute(job.url.s)))]
    ELSE [raises |-> "none", job |-> job]

\* The truth value of result.extracted_content (line 95).
ContentTruthy(c) == c.kind = "str" /\ c.text # ""

\* if result and result.extracted_content (line 95).
HasExtraction(r) == ~r.none /\ ContentTruthy(r.extracted_content)

\* json.loads (line 101): the value, or JSONDecodeError.
JsonLoads(c) ==
    IF c.json THEN [raises |-> "none", value |-> c.value]
    ELSE [raises |-> "JSONDecodeError", value |-> Scalar]

\* A loop that stops one element early.
LoopDoneEarly(k, items) == k >= Len(items)

\* The for loop has run out of elements (line 104).
LoopDone(k, items) == k > Len(items)

\* open("extracted_jobs.json", "w") and json.dump (lines 113-115): the file
\* holds the dumped array, whatever it held.
Absent == [exists |-> FALSE, data |-> <<>>]
OpenedForAppend(old, data) == [exists |-> TRUE, data |-> old.data \o data]
Overwrite(old, data) == [exists |-> TRUE, data |-> data]

\* The exceptions the collaborator and the interpreter raise here; all are
\* subclasses of Exception.
CrawlErrors == { "RuntimeError", "TimeoutError" }
Exceptions == CrawlErrors \cup { "JSONDecodeError", "TypeError", "AttributeError", "OSError" }

\* A handler for another class than the decoder raises.
InnerCatchesTypeError(e) == e = "TypeError"

\* except json.JSONDecodeError (line 118).
InnerCatches(e) == e = "JSONDecodeError"

\* Handlers narrower than except Exception.
OuterCatchesJsonOnly(e) == e = "JSONDecodeError"
OuterCatchesCrawlOnly(e) == e \in CrawlErrors

\* except Exception (line 138).
OuterCatches(e) == e \in Exceptions

\* Where control goes when e is raised, inside the inner try (lines 99-115)
\* or only inside the outer one (lines 70-135).
Handler(inner, e) ==
    IF inner /\ InnerCatches(e) THEN "except_json"
    ELSE IF OuterCatches(e) THEN "except_outer"
    ELSE "propagate"

-----------------------------------------------------------------------------
(* State                                                                    *)

VARIABLES
    pc,          \* the statement scrape_jobs is at
    file,        \* extracted_jobs.json
    file0,       \* extracted_jobs.json as the run found it
    result,      \* the local result (line 89)
    parsed_data, \* the local parsed_data (line 101), rewritten in place
    idx,         \* the position of the for loop (line 104)
    console,     \* the messages printed, in order
    pprinted,    \* the array pprint printed (line 111)
    rawPrinted,  \* the raw content printed (line 121)
    raised,      \* the exceptions raised, each with where it was raised
    handled,     \* the handlers that caught them, in order
    fetches,     \* the calls of crawler.arun in this run
    writes,      \* the writes of the file in this run
    outcome      \* how scrape_jobs ended: "running", "returned", "raised"

vars ==
    <<pc, file, file0, result, parsed_data, idx, console, pprinted, rawPrinted,
      raised, handled, fetches, writes, outcome>>

\* A file an earlier run left behind.
EarlierFile ==
    Overwrite(Absent, <<Job(Str(<<"A">>), Str(<<"K">>), Str(Absolute(<<"/", "o">>)))>>)

Fresh(f) ==
    /\ pc = "main"
    /\ file = f
    /\ file0 = f
    /\ result = NoResult
    /\ parsed_data = Scalar
    /\ idx = 0
    /\ console = <<>>
    /\ pprinted = <<>>
    /\ rawPrinted = NoneContent
    /\ raised = <<>>
    /\ handled = <<>>
    /\ fetches = 0
    /\ writes = 0
    /\ outcome = "running"

Init == \E f \in { Absent, EarlierFile } : Fresh(f)

InitRuns == Fresh(Absent)

\* e is raised at place `at`: control goes to the handler that catches it,
\* or leaves scrape_jobs.
Raise(e, at, inner) ==
    /\ raised' = Append(raised, <<e, at>>)
    /\ pc' = IF Handler(inner, e) = "propagate" THEN "done" ELSE Handler(inner, e)
    /\ outcome' = IF Handler(inner, e) = "propagate" THEN "raised" ELSE outcome

-----------------------------------------------------------------------------
(* The steps of scrape_jobs                                                 *)

\* __main__ and lines 25-67: the messages printed before the try.
Main ==
    /\ pc = "main"
    /\ console' = <<"event_loop", "starting", "initializing">>
    /\ pc' = "construct"
    /\ UNCHANGED <<file, file0, result, parsed_data, idx, pprinted, rawPrinted,
                   raised, handled, fetches, writes, outcome>>

\* Line 73: the strategy is constructed.
Construct ==
    /\ pc = "construct"
    /\ pc' = "aenter"
    /\ UNCHANGED <<file, file0, result, parsed_data, idx, console, pprinted,
                   rawPrinted, raised, handled, fetches, writes, outcome>>

ConstructThrows ==
    /\ pc = "construct"
    /\ \E e \in CrawlErrors : Raise(e, "construct", FALSE)
    /\ UNCHANGED <<file, file0, result, parsed_data, idx, console, pprinted,
                   rawPrinted, handled, fetches, writes>>

\* Line 77: async with starts the browser.
Aenter ==
    /\ pc = "aenter"
    /\ pc' = "arun"
    /\ UNCHANGED <<file, file0, result, parsed_data, idx, console, pprinted,
                   rawPrinted, raised, handled, fetches, writes, outcome>>

AenterThrows ==
    /\ pc = "aenter"
    /\ \E e \in CrawlErrors : Raise(e, "aenter", FALSE)
    /\ UNCHANGED <<file, file0, result, parsed_data, idx, console, pprinted,
                   rawPrinted, handled, fetches, writes>>

\* Lines 87-91: the fetch returns r.
ArunReturns(S) ==
    /\ pc = "arun"
    /\ \E r \in Results(S) : result' = r
    /\ fetches' = fetches + 1
    /\ console' = console \o <<"crawling", "complete">>
    /\ pc' = "branch"
    /\ UNCHANGED <<file, file0, parsed_data, idx, pprinted, rawPrinted, raised,
                   handled, writes, outcome>>

\* Lines 87-89: the fetch throws.
ArunThrows ==
    /\ pc = "arun"
    /\ fetches' = fetches + 1
    /\ console' = Append(console, "crawling")
    /\ \E e \in CrawlErrors : Raise(e, "arun", FALSE)
    /\ UNCHANGED <<file, file0, result, parsed_data, idx, pprinted, rawPrinted,
                   handled, writes>>

\* Lines 95-97: the branch with extracted content prints the header.
SuccessBranch ==
    /\ pc = "branch"
    /\ HasExtraction(result)
    /\ console' = Append(console, "header")
    /\ pc' = "loads"
    /\ UNCHANGED <<file, file0, result, parsed_data, idx, pprinted, rawPrinted,
                   raised, handled, fetches, writes, outcome>>

\* Lines 126-128: the branch without prints the warning.
WarningBranch ==
    /\ pc = "branch"
    /\ ~HasExtraction(result)
    /\ console' = Append(console, "warning")
    /\ pc' = IF result.none THEN "aexit" ELSE "diagnostics"
    /\ UNCHANGED <<file, file0, result, parsed_data, idx, pprinted, rawPrinted,
                   raised, handled, fetches, writes, outcome>>

\* Lines 130-135: result.status and result.model_output are read and printed;
\* reading an attribute the result lacks raises AttributeError.
Diagnostics ==
    /\ pc = "diagnostics"
    /\ IF result.attrs.status = "absent"
         THEN /\ Raise("AttributeError", "status", FALSE)
              /\ UNCHANGED console
       ELSE IF result.attrs.model_output = "absent"
         THEN /\ Raise("AttributeError", "model_output", FALSE)
              /\ console' = console \o <<"status", "raw_header">>
       ELSE /\ console' = console \o
                  <<"status", "raw_header",
                    IF result.attrs.model_output = "empty"
                      THEN "model_output_empty" ELSE "model_output",
                    "raw_footer">>
            /\ pc' = "aexit"
            /\ UNCHANGED <<raised, outcome>>
    /\ UNCHANGED <<file, file0, result, parsed_data, idx, pprinted, rawPrinted,
                   handled, fetches, writes>>

\* Line 101: json.loads.
Loads ==
    /\ pc = "loads"
    /\ LET r == JsonLoads(result.extracted_content) IN
         IF r.raises = "none"
           THEN /\ parsed_data' = r.value
                /\ idx' = 1
                /\ pc' = "for"
                /\ UNCHANGED <<raised, outcome>>
           ELSE /\ Raise(r.raises, "loads", TRUE)
                /\ UNCHANGED <<parsed_data, idx>>
    /\ UNCHANGED <<file, file0, result, console, pprinted, rawPrinted, handled,
                   fetches, writes>>

\* Lines 104-108: the loop takes the next element and rewrites its url; a
\* value that cannot be iterated raises TypeError.
ForNext ==
    /\ pc = "for"
    /\ IF parsed_data.t # "list"
         THEN /\ Raise("TypeError", "for", TRUE)
              /\ UNCHANGED <<parsed_data, idx>>
       ELSE /\ ~LoopDone(idx, parsed_data.items)
            /\ LET b == LoopBody(parsed_data.items[idx]) IN
                 IF b.raises = "none"
                   THEN /\ parsed_data' = [parsed_data EXCEPT !.items[idx] = b.job]
                        /\ idx' = idx + 1
                        /\ UNCHANGED <<pc, raised, outcome>>
                   ELSE /\ Raise(b.raises, "for", TRUE)
                        /\ UNCHANGED <<parsed_data, idx>>
    /\ UNCHANGED <<file, file0, result, console, pprinted, rawPrinted, handled,
                   fetches, writes>>

\* Line 111: the loop is over; the array is printed.
PPrint ==
    /\ pc = "for"
    /\ parsed_data.t = "list"
    /\ LoopDone(idx, parsed_data.items)
    /\ pprinted' = parsed_data.items
    /\ console' = Append(console, "pprint")
    /\ pc' = "write"
    /\ UNCHANGED <<file, file0, result, parsed_data, idx, rawPrinted, raised,
                   handled, fetches, writes, outcome>>

\* Lines 113-115: the file is opened for writing and the array dumped.
Write ==
    /\ pc = "write"
    /\ file' = Overwrite(file, parsed_data.items)
    /\ writes' = writes + 1
    /\ pc' = "closing"
    /\ UNCHANGED <<file0, result, parsed_data, idx, console, pprinted, rawPrinted,
                   raised, handled, fetches, outcome>>

\* Line 113: open fails (no permission, say) and leaves the file alone.
OpenFails ==
    /\ pc = "write"
    /\ Raise("OSError", "open", TRUE)
    /\ UNCHANGED <<file, file0, result, parsed_data, idx, console, pprinted,
                   rawPrinted, handled, fetches, writes>>

\* Lines 118-121: the inner handler prints the raw content.
ExceptJson ==
    /\ pc = "except_json"
    /\ handled' = Append(handled, "inner")
    /\ console' = console \o <<"could_not_parse", "raw">>
    /\ rawPrinted' = result.extracted_content
    /\ pc' = "closing"
    /\ UNCHANGED <<file, file0, result, parsed_data, idx, pprinted, raised,
                   fetches, writes, outcome>>

\* Line 124: the closing line of the success branch.
Closing ==
    /\ pc = "closing"
    /\ console' = Append(console, "closing")
    /\ pc' = "aexit"
    /\ UNCHANGED <<file, file0, result, parsed_data, idx, pprinted, rawPrinted,
                   raised, handled, fetches, writes, outcome>>

\* Line 77: the end of the async with block closes the browser, and the
\* function returns.
Aexit ==
    /\ pc = "aexit"
    /\ pc' = "done"
    /\ outcome' = "returned"
    /\ UNCHANGED <<file, file0, result, parsed_data, idx, console, pprinted,
                   rawPrinted, raised, handled, fetches, writes>>

AexitThrows ==
    /\ pc = "aexit"
    /\ \E e \in CrawlErrors : Raise(e, "aexit", FALSE)
    /\ UNCHANGED <<file, file0, result, parsed_data, idx, console, pprinted,
                   rawPrinted, handled, fetches, writes>>

\* Lines 138-140: the top-level handler prints the error; the function
\* returns.
ExceptOuter ==
    /\ pc = "except_outer"
    /\ handled' = Append(handled, "outer")
    /\ console' = Append(console, "error")
    /\ pc' = "done"
    /\ outcome' = "returned"
    /\ UNCHANGED <<file, file0, result, parsed_data, idx, pprinted, rawPrinted,
                   raised, fetches, writes>>

\* The script is started again: a new process, with the file as the last
\* run left it.
Rerun ==
    /\ pc = "done"
    /\ pc' = "main"
    /\ file0' = file
    /\ result' = NoResult
    /\ parsed_data' = Scalar
    /\ idx' = 0
    /\ console' = <<>>
    /\ pprinted' = <<>>
    /\ rawPrinted' = NoneContent
    /\ raised' = <<>>
    /\ handled' = <<>>
    /\ fetches' = 0
    /\ writes' = 0
    /\ outcome' = "running"
    /\ UNCHANGED file

Steps ==
    \/ Main
    \/ Construct
    \/ ConstructThrows
    \/ Aenter
    \/ AenterThrows
    \/ ArunThrows
    \/ SuccessBranch
    \/ WarningBranch
    \/ Diagnostics
    \/ Loads
    \/ ForNext
    \/ PPrint
    \/ Write
    \/ OpenFails
    \/ ExceptJson
    \/ Closing
    \/ Aexit
    \/ AexitThrows
    \/ ExceptOuter

\* One run of the script.
Next == Steps \/ ArunReturns(Items)

Spec == Init /\ [][Next]_vars

\* One run, every step of which is eventually taken: asyncio.run drives the
\* coroutine until it finishes.
NextFair == Steps \/ ArunReturns(UrlItems)

FairSpec == Init /\ [][NextFair]_vars /\ WF_vars(NextFair)

\* The script run again and again against the smaller portal.
NextRuns == Steps \/ ArunReturns(CatalogueItems) \/ Rerun

SpecRuns == InitRuns /\ [][NextRuns]_vars

-----------------------------------------------------------------------------
(* Properties                                                               *)

Printed(msg) == \E k \in 1..Len(console) : console[k] = msg

\* The array json.loads returned, as it was before the loop rewrote it.
Parsed0 == result.extracted_content.value.items

\* The fetch returned JSON text of a list and the parse has happened.
ParsedList ==
    /\ pc \notin {"main", "construct", "aenter", "arun", "branch", "loads"}
    /\ fetches = 1
    /\ HasExtraction(result)
    /\ result.extracted_content.json
    /\ result.extracted_content.value.t = "list"

\* C1: in the array printed, and in the array written, the url of every
\* record is "https://www.google.com" followed by the parsed url when that
\* is a string beginning with "/", and the parsed url itself otherwise.
C1_UrlRewritten ==
    LET base == <<"h", "t", "t", "p", "s", ":", "/", "/",
                  "w", "w", "w", ".", "g", "o", "o", "g", "l", "e", ".", "c", "o", "m">>
        expected(u) ==
            IF u.t = "str" /\ u.s # <<>> /\ Head(u.s) = "/"
              THEN [t |-> "str", s |-> base \o u.s, n |-> 0]
              ELSE u
        rewritten(a) ==
            /\ Len(a) = Len(Parsed0)
            /\ \A k \in 1..Len(a) : a[k].url = expected(Parsed0[k].url)
    IN  /\ Printed("pprint") => rewritten(pprinted)
        /\ writes > 0 => rewritten(file.data)

C1_Witness ==
    /\ writes = 1
    /\ Printed("pprint")
    /\ \E j, k \in 1..Len(Parsed0) :
         /\ Parsed0[j].url = Str(<<"/", "j">>)
         /\ file.data[j].url # Parsed0[j].url
         /\ Parsed0[k].url \in { Str(<<"h">>), Str(<<"j", "/">>), Null, Missing }

\* C2: when constructing the crawler, starting the browser or the fetch
\* throws, the file is not written in the run and is as the run found it,
\* and the run ends with the top-level handler having caught the exception
\* and printed the error message.
C2_FetchFailure ==
    \A k \in 1..Len(raised) :
        raised[k][2] \in {"construct", "aenter", "arun"} =>
            /\ writes = 0
            /\ file = file0
            /\ pc \in {"except_outer", "done"}
            /\ pc = "done" =>
                 /\ handled = <<"outer">>
                 /\ Len(console) > 0
                 /\ console[Len(console)] = "error"
                 /\ outcome = "returned"

C2_Witness ==
    /\ pc = "done"
    /\ raised = << <<"TimeoutError", "arun">> >>
    /\ handled = <<"outer">>
    /\ file0.exists

\* The fetch returned a non-empty extracted_content that is not JSON, and
\* json.loads has been called on it.
Malformed ==
    /\ pc \notin {"main", "construct", "aenter", "arun", "branch", "loads"}
    /\ fetches = 1
    /\ HasExtraction(result)
    /\ ~result.extracted_content.json

\* C3: when the extracted content is non-empty and not JSON, the decode
\* error goes to the inner handler, which prints the raw content; the file is
\* not written and is as the run found it; the run returns normally.
C3_MalformedExtraction ==
    Malformed =>
        /\ Len(raised) > 0
        /\ raised[1] = <<"JSONDecodeError", "loads">>
        /\ writes = 0
        /\ file = file0
        /\ pc # "except_json" =>
             /\ Len(handled) > 0
             /\ handled[1] = "inner"
             /\ Printed("raw")
             /\ rawPrinted = result.extracted_content
             /\ ~Printed("pprint")
        /\ pc = "done" => outcome = "returned"

C3_Witness ==
    /\ Malformed
    /\ pc = "done"
    /\ handled = <<"inner">>
    /\ rawPrinted = BadContent("[{")
    /\ file0.exists

\* C4 (as claimed): when the fetch succeeds and the extraction is the empty
\* sequence, the run prints the warning and the diagnostics, prints no
\* listings header and writes no file.
C4_EmptyResultWarns ==
    ( /\ fetches = 1
      /\ ~result.none
      /\ result.extracted_content = JsonContent(List(<<>>))
      /\ pc \notin {"arun", "branch"} )
    => /\ Printed("warning")
       /\ ~Printed("header")
       /\ writes = 0

C6_AlwaysReturns == <>(pc = "done" /\ outcome = "returned")

C6_Witness ==
    /\ pc = "done"
    /\ outcome = "returned"
    /\ raised = << <<"AttributeError", "model_output">> >>
    /\ handled = <<"outer">>

\* C7: a run calls the fetch at most once and writes the file at most once;
\* the file is written only after the fetch has returned, the parse has
\* succeeded and the loop has passed every record, so that no url it holds
\* begins with "/"; a run that has not written leaves the file as it was.
C7_SequentialNoPartialWrite ==
    /\ fetches <= 1
    /\ writes <= 1
    /\ writes = 0 => file = file0
    /\ writes = 1 =>
         /\ ParsedList
         /\ Printed("complete")
         /\ idx = Len(Parsed0) + 1
         /\ Len(file.data) = Len(Parsed0)
         /\ \A k \in 1..Len(file.data) :
              ~(file.data[k].url.t = "str"
                  /\ file.data[k].url.s # <<>>
                  /\ Head(file.data[k].url.s) = "/")

C7_Witness ==
    /\ writes = 1
    /\ fetches = 1
    /\ Len(Parsed0) = 2
    /\ Parsed0[2].url = Str(<<"/", "/", "j">>)
    /\ file # file0

C9_RewriteIdempotent ==
    (pc \in {"for", "write", "closing", "aexit", "except_outer", "done"}
        /\ parsed_data.t = "list") =>
        \A k \in 1..(idx - 1) :
            LoopBody(parsed_data.items[k]) =
                [raises |-> "none", job |-> parsed_data.items[k]]

C9_Witness ==
    /\ pc = "for"
    /\ idx = 3
    /\ Parsed0[1].url = Str(<<"/", "/", "j">>)
    /\ parsed_data.items[1].url # Parsed0[1].url
    /\ Parsed0[2].url = Str(<<"h">>)

\* C10: the array printed has the records of the parsed array, in their
\* order, with the same title and location and, unless the url begins with
\* "/", the same url; and the array written is the array printed.
C10_Frame ==
    /\ Printed("pprint") =>
         /\ Len(pprinted) = Len(Parsed0)
         /\ \A k \in 1..Len(pprinted) :
              /\ pprinted[k].dict = Parsed0[k].dict
              /\ pprinted[k].title = Parsed0[k].title
              /\ pprinted[k].location = Parsed0[k].location
              /\ ~(Parsed0[k].url.t = "str"
                     /\ Parsed0[k].url.s # <<>>
                     /\ Head(Parsed0[k].url.s) = "/")
                   => pprinted[k].url = Parsed0[k].url
    /\ writes = 1 => file.data = pprinted

C10_Witness ==
    /\ writes = 1
    /\ Len(pprinted) = 2
    /\ pprinted[1].title # pprinted[2].title
    /\ pprinted[1].location # pprinted[2].location
    /\ Parsed0[1].url = Str(<<"j", "/">>)
    /\ Parsed0[2].url = Str(<<"/", "j">>)
    /\ pprinted[2].url # Parsed0[2].url

====
